---------------------------- MODULE Spec2Model ----------------------------
(***************************************************************************)
(* A model of uxcam_server.py: the add_uxcam_android tool, which patches   *)
(* the Gradle files, local.properties, .gitignore and one source file of   *)
(* an Android project.                                                     *)
(*                                                                         *)
(* Text whose characters the code inspects (key references, property       *)
(* names, the lines of local.properties, the tail of a buildConfigField    *)
(* line) is a sequence of one-character strings.  Gradle, manifest and     *)
(* source files are sequences of lines, one record [k, n] per line: k is   *)
(* the kind of line the code's patterns can tell apart, n the name the     *)
(* line carries, if any.                                                   *)
(***************************************************************************)
EXTENDS Integers, Sequences, FiniteSets, TLC

VARIABLES files, pc, app_key_ref, reports, app_key_expr, writes, result, last, calls

vars == <<files, pc, app_key_ref, reports, app_key_expr, writes, result, last, calls>>

(***************************************************************************)
(* Bounds of the model.                                                    *)
(***************************************************************************)
MaxCalls == 2

(***************************************************************************)
(* Characters and Python's str methods.                                    *)
(***************************************************************************)
UpperChars == <<"A","B","C","D","E","F","G","H","I","J","K","L","M",
                "N","O","P","Q","R","S","T","U","V","W","X","Y","Z">>
LowerChars == <<"a","b","c","d","e","f","g","h","i","j","k","l","m",
                "n","o","p","q","r","s","t","u","v","w","x","y","z">>
DigitChars == {"0","1","2","3","4","5","6","7","8","9"}

Range(s) == {s[i] : i \in DOMAIN s}

IsAlphaChar(c) == c \in Range(UpperChars) \cup Range(LowerChars)
IsDigitChar(c) == c \in DigitChars
IsAlnumChar(c) == IsAlphaChar(c) \/ IsDigitChar(c)
IsSpaceChar(c) == c \in {" ", "\t", "\n", "\r"}

\* str.lower() on one character (re.IGNORECASE compares case-folded text)
LowerChar(c) ==
    IF \E i \in DOMAIN UpperChars : UpperChars[i] = c
    THEN LowerChars[CHOOSE i \in DOMAIN UpperChars : UpperChars[i] = c]
    ELSE c

LowerStr(s) == [i \in DOMAIN s |-> LowerChar(s[i])]

\* str.isalpha(), str.isdigit(): false on the empty string
IsAlpha(s) == Len(s) > 0 /\ \A i \in DOMAIN s : IsAlphaChar(s[i])
IsDigit(s) == Len(s) > 0 /\ \A i \in DOMAIN s : IsDigitChar(s[i])

Tail0(s, n) == SubSeq(s, n + 1, Len(s))

\* str.startswith(p)
StartsWith(s, p) == Len(p) <= Len(s) /\ SubSeq(s, 1, Len(p)) = p

\* p in s
Contains(s, p) ==
    \E i \in 0..(Len(s) - Len(p)) : SubSeq(s, i + 1, i + Len(p)) = p

\* str.strip(): drop the leading and the trailing whitespace
Strip(s) ==
    IF \A i \in DOMAIN s : IsSpaceChar(s[i]) THEN <<>>
    ELSE LET a == CHOOSE i \in DOMAIN s :
                     ~IsSpaceChar(s[i]) /\ \A j \in 1..(i - 1) : IsSpaceChar(s[j])
             b == CHOOSE i \in DOMAIN s :
                     ~IsSpaceChar(s[i]) /\ \A j \in (i + 1)..Len(s) : IsSpaceChar(s[j])
         IN  SubSeq(s, a, b)

\* str.strip(ch): drop every leading and trailing occurrence of ch
StripChar(s, ch) ==
    IF \A i \in DOMAIN s : s[i] = ch THEN <<>>
    ELSE LET a == CHOOSE i \in DOMAIN s :
                     s[i] # ch /\ \A j \in 1..(i - 1) : s[j] = ch
             b == CHOOSE i \in DOMAIN s :
                     s[i] # ch /\ \A j \in (i + 1)..Len(s) : s[j] = ch
         IN  SubSeq(s, a, b)

\* str.replace(old, ""): delete every occurrence of old, left to right
RECURSIVE RemoveAll(_, _)
RemoveAll(s, old) ==
    IF Len(old) = 0 \/ Len(s) < Len(old) THEN s
    ELSE IF StartsWith(s, old) THEN RemoveAll(Tail0(s, Len(old)), old)
    ELSE <<s[1]>> \o RemoveAll(Tail(s), old)

(***************************************************************************)
(* The texts the code names.                                               *)
(***************************************************************************)
S_BuildConfigDot == <<"B","u","i","l","d","C","o","n","f","i","g",".">>
S_UXCAM_KEY      == <<"U","X","C","A","M","_","K","E","Y">>
S_MYKEY          == <<"M","Y","K","E","Y">>
S_KEY            == <<"K","E","Y">>
S_Eq             == <<"=">>


(***************************************************************************)
(* Paths (lines 17-21 and the literals of lines 211 and 261) and the       *)
(* source files under app/src.                                             *)
(***************************************************************************)
GRADLE_GROOVY   == "app/build.gradle"
GRADLE_KTS      == "app/build.gradle.kts"
SETTINGS_GROOVY == "settings.gradle"
SETTINGS_KTS    == "settings.gradle.kts"
MANIFEST_PATH   == "app/src/main/AndroidManifest.xml"
LOCAL_PROPS     == "local.properties"
GITIGNORE       == ".gitignore"

\* Path.suffix
Suffix(p) ==
    CASE p \in {GRADLE_KTS, SETTINGS_KTS}       -> ".kts"
      [] p \in {GRADLE_GROOVY, SETTINGS_GROOVY} -> ".gradle"
      [] p = MANIFEST_PATH                      -> ".xml"
      [] p = LOCAL_PROPS                        -> ".properties"
      [] OTHER                                  -> ""

(***************************************************************************)
(* The file system as the code sees it: Path.exists, read_text and         *)
(* write_text.  A world is the files plus the log of the write_text calls  *)
(* of the running invocation.                                              *)
(***************************************************************************)
Absent == [exists |-> FALSE, lines |-> <<>>]
File(lines) == [exists |-> TRUE, lines |-> lines]

Exists(w, p) == w.files[p].exists
ReadText(w, p) == w.files[p].lines
WriteText(w, p, lines) ==
    [files  |-> [w.files EXCEPT ![p] = File(lines)],
     writes |-> Append(w.writes, p)]

InsertAfter(lines, i, new) ==
    SubSeq(lines, 1, i) \o new \o SubSeq(lines, i + 1, Len(lines))

(***************************************************************************)
(* Lines of a Gradle file.  The kinds are the texts the code's patterns    *)
(* and substring tests tell apart.                                         *)
(***************************************************************************)
L(k) == [k |-> k, n |-> <<>>]
LN(k, n) == [k |-> k, n |-> n]

\* MAVEN_REPO_SNIPPET, MAVEN_REPO_SNIPPET_KTS, DEP_LINE_GROOVY, DEP_LINE_KTS
MAVEN_REPO_SNIPPET     == L("maven { url \"https://sdk.uxcam.com/android/\" }")
MAVEN_REPO_SNIPPET_KTS == L("maven(\"https://sdk.uxcam.com/android/\")")
DEP_LINE_GROOVY        == L("implementation 'com.uxcam:uxcam:3.+'")
DEP_LINE_KTS           == L("implementation(\"com.uxcam:uxcam:3.+\")")

DRM_OPEN     == L("dependencyResolutionManagement {")
REPOS_OPEN   == L("repositories {")
DEPS_OPEN    == L("dependencies {")
ANDROID_OPEN == L("android {")
DEFCFG_OPEN  == L("defaultConfig {")
PLUGINS_OPEN == L("pluginManagement {")
CLOSE        == L("}")
OTHER_LINE   == L("...")
\* what is left of a generated buildConfigField line after the text up to its
\* "}" was taken into a defaultConfig match (line 327): the line "    }\""
CLOSE_TAIL   == L("    }...")

\* the kinds of buildConfigField line: generated by line 310 or 312, such a
\* line cut before its "}", and a hand-written one holding a literal value
BcfKinds == {"bcf_kts", "bcf_groovy", "bcf_cut", "bcf_literal"}

\* the lines whose text holds a "}" (the character class [^}] stops there)
HasCloseBrace(ln) ==
    ln.k \in {CLOSE.k, CLOSE_TAIL.k, MAVEN_REPO_SNIPPET.k, "bcf_kts", "bcf_groovy"}

S_findProperty == <<"p","r","o","j","e","c","t",".","f","i","n","d",
                    "P","r","o","p","e","r","t","y">>

\* The text of a buildConfigField line that follows its "String" type
BcfRest(ln) ==
    LET head == <<",", " ", "\"">> \o ln.n \o <<"\"", ",", " ", "\"", "\\", "\"">>
        look == <<"$", "{">> \o S_findProperty \o <<"(", "\\", "\"">> \o ln.n
                \o <<"\\", "\"", ")", " ", "?", ":", " ", "\\", "\"", "\\", "\"">>
    IN  CASE ln.k = "bcf_groovy"  -> head \o look \o <<"}", "\\", "\"", "\"">>
          [] ln.k = "bcf_kts"     -> head \o look \o <<"}", "\\", "\"", ")">>
          [] ln.k = "bcf_cut"     -> head \o look
          [] ln.k = "bcf_literal" -> head \o <<"v", "\\", "\"", "\"">>
          [] OTHER                -> <<>>

\* snippet in txt, line in txt
HasLine(txt, ln) == \E i \in DOMAIN txt : txt[i] = ln

\* re.search(pattern, txt) for a pattern that is one block opener: the index
\* of the first line holding it, 0 when there is none
FirstLine(txt, ln) ==
    IF HasLine(txt, ln)
    THEN CHOOSE i \in DOMAIN txt : txt[i] = ln /\ \A j \in 1..(i - 1) : txt[j] # ln
    ELSE 0

(***************************************************************************)
(* Status messages: the mark is the prefix                                 *)
(* (success, info, warning), text the words, file the path named.          *)
(***************************************************************************)
Msg(mark, text, file) == [mark |-> mark, text |-> text, file |-> file, name |-> <<>>]
MsgN(mark, text, name) == [mark |-> mark, text |-> text, file |-> "", name |-> name]
EmptyMsg == Msg("", "", "")
Ret(w, r) == [w |-> w, ret |-> r]

(***************************************************************************)
(* add_repo, add_repo_fallback, add_dependency                             *)
(***************************************************************************)
\* re.sub(r"repositories\s*{", ..., txt, count=1) and its dependencies twin:
\* the text with the snippet after the first opener, unchanged without one
SubFirst(txt, opener, snippet) ==
    LET i == FirstLine(txt, opener)
    IN  IF i = 0 THEN txt ELSE InsertAfter(txt, i, <<snippet>>)

add_repo_fallback(w) ==
    LET target == IF Exists(w, GRADLE_KTS) THEN GRADLE_KTS ELSE GRADLE_GROOVY
        txt == ReadText(w, target)
        snippet == IF Suffix(target) = ".kts" THEN MAVEN_REPO_SNIPPET_KTS
                   ELSE MAVEN_REPO_SNIPPET
    IN  IF ~Exists(w, target)
        THEN Ret(w, Msg("warning", "Neither settings.gradle nor app/build.gradle found", ""))
        ELSE IF HasLine(txt, snippet)
        THEN Ret(w, Msg("info", "Maven repo already present in app/build.gradle", ""))
        ELSE Ret(WriteText(w, target, SubFirst(txt, REPOS_OPEN, snippet)),
                 Msg("success", "Added UXCam Maven repo in (fallback)", target))

\* the match of dependencyResolutionManagement\s*{[^}]*repositories\s*{ :
\* the leftmost dependencyResolutionManagement opener that a repositories
\* opener follows with no "}" in between, and (greedy [^}]*) the last such
\* repositories opener; <<0, 0>> when there is no match
DrmMatch(txt) ==
    LET ok(i, j) == /\ i < j
                    /\ txt[i] = DRM_OPEN
                    /\ txt[j] = REPOS_OPEN
                    /\ \A m \in (i + 1)..(j - 1) : ~HasCloseBrace(txt[m])
        starts == {i \in DOMAIN txt : \E j \in DOMAIN txt : ok(i, j)}
    IN  IF starts = {} THEN <<0, 0>>
        ELSE LET i == CHOOSE a \in starts : \A b \in starts : a <= b
                 j == CHOOSE a \in DOMAIN txt :
                          ok(i, a) /\ \A b \in DOMAIN txt : ok(i, b) => b <= a
             IN  <<i, j>>

\* add_repo without the fallback: no settings file is a missing target
add_repo_NoFallback(w) ==
    LET target == IF Exists(w, SETTINGS_KTS) THEN SETTINGS_KTS ELSE SETTINGS_GROOVY
        txt == ReadText(w, target)
        snippet == IF Suffix(target) = ".kts" THEN MAVEN_REPO_SNIPPET_KTS
                   ELSE MAVEN_REPO_SNIPPET
        match == DrmMatch(txt)
    IN  IF Exists(w, target)
        THEN IF HasLine(txt, snippet)
             THEN Ret(w, Msg("info", "Maven repo already present in settings.gradle", ""))
             ELSE IF match[1] # 0
             THEN Ret(WriteText(w, target, InsertAfter(txt, match[2], <<snippet>>)),
                      Msg("success",
                          "Added UXCam Maven repo in (dependencyResolutionManagement)",
                          target))
             ELSE add_repo_fallback(w)
        ELSE Ret(w, Msg("warning", "Neither settings.gradle nor app/build.gradle found", ""))

add_repo(w) ==
    LET target == IF Exists(w, SETTINGS_KTS) THEN SETTINGS_KTS ELSE SETTINGS_GROOVY
        txt == ReadText(w, target)
        snippet == IF Suffix(target) = ".kts" THEN MAVEN_REPO_SNIPPET_KTS
                   ELSE MAVEN_REPO_SNIPPET
        match == DrmMatch(txt)
    IN  IF Exists(w, target)
        THEN IF HasLine(txt, snippet)
             THEN Ret(w, Msg("info", "Maven repo already present in settings.gradle", ""))
             ELSE IF match[1] # 0
             THEN Ret(WriteText(w, target, InsertAfter(txt, match[2], <<snippet>>)),
                      Msg("success",
                          "Added UXCam Maven repo in (dependencyResolutionManagement)",
                          target))
             ELSE add_repo_fallback(w)
        ELSE add_repo_fallback(w)

\* add_dependency with a slip: the Groovy line whatever the file
add_dependency_GroovyLine(w) ==
    LET target == IF Exists(w, GRADLE_KTS) THEN GRADLE_KTS ELSE GRADLE_GROOVY
        txt == ReadText(w, target)
        line == DEP_LINE_GROOVY
    IN  IF ~Exists(w, target)
        THEN Ret(w, Msg("warning", "app/build.gradle file not found", ""))
        ELSE IF HasLine(txt, line)
        THEN Ret(w, Msg("info", "Dependency already present", ""))
        ELSE Ret(WriteText(w, target, SubFirst(txt, DEPS_OPEN, line)),
                 Msg("success", "Added UXCam dependency in", target))

add_dependency(w) ==
    LET target == IF Exists(w, GRADLE_KTS) THEN GRADLE_KTS ELSE GRADLE_GROOVY
        txt == ReadText(w, target)
        line == IF Suffix(target) = ".kts" THEN DEP_LINE_KTS ELSE DEP_LINE_GROOVY
    IN  IF ~Exists(w, target)
        THEN Ret(w, Msg("warning", "app/build.gradle file not found", ""))
        ELSE IF HasLine(txt, line)
        THEN Ret(w, Msg("info", "Dependency already present", ""))
        ELSE Ret(WriteText(w, target, SubFirst(txt, DEPS_OPEN, line)),
                 Msg("success", "Added UXCam dependency in", target))


(***************************************************************************)
(* local.properties and .gitignore: their lines are character sequences.   *)
(* A file that exists has at least one line (the split of its text).       *)
(***************************************************************************)
S_local_properties == <<"l","o","c","a","l",".","p","r","o","p","e","r","t","i","e","s">>

\* '\n'.join(lines): the text of the file
RECURSIVE JoinLines(_)
JoinLines(lines) ==
    IF Len(lines) = 0 THEN <<>>
    ELSE IF Len(lines) = 1 THEN lines[1]
    ELSE lines[1] \o <<"\n">> \o JoinLines(Tail(lines))

\* the end of the line that position i of text t is on
LineEnd(t, i) ==
    IF \E j \in i..Len(t) : t[j] = "\n"
    THEN (CHOOSE j \in i..Len(t) : t[j] = "\n" /\ \A m \in i..(j - 1) : t[m] # "\n") - 1
    ELSE Len(t)

\* the first position at or after i that holds no whitespace, Len(t) + 1 if none
SkipSpace(t, i) ==
    IF \E j \in i..Len(t) : ~IsSpaceChar(t[j])
    THEN CHOOSE j \in i..Len(t) :
             ~IsSpaceChar(t[j]) /\ \A m \in i..(j - 1) : IsSpaceChar(t[m])
    ELSE Len(t) + 1

\* The match of ^NAME\s*=\s*(.+)$ that starts at position i of t, as
\* [match, group]: \s runs over line ends too, (.+) stays on one line; when only
\* whitespace follows the "=", \s* gives back up to the last blank or tab,
\* and the group is that whitespace
PropMatchAt(t, i, var_name) ==
    LET no == [match |-> FALSE, group |-> <<>>]
        e == SkipSpace(t, i + Len(var_name))
        v == SkipSpace(t, e + 1)
        blanks == {j \in (e + 1)..Len(t) : t[j] \in {" ", "\t", "\r"}}
        b == CHOOSE j \in blanks : \A m \in blanks : m <= j
    IN  IF ~StartsWith(Tail0(t, i - 1), var_name) THEN no
        ELSE IF e > Len(t) \/ t[e] # "=" THEN no
        ELSE IF v <= Len(t) THEN [match |-> TRUE, group |-> SubSeq(t, v, LineEnd(t, v))]
        ELSE IF blanks # {} THEN [match |-> TRUE, group |-> SubSeq(t, b, LineEnd(t, b))]
        ELSE no

\* find_in_local_properties: the stripped group of the first match, <<>> for
\* None (the callers test the value's truth only)
find_in_local_properties(w, var_name) ==
    LET t == JoinLines(ReadText(w, LOCAL_PROPS))
        starts == {i \in 1..(Len(t) + 1) : i = 1 \/ t[i - 1] = "\n"}
        hits == {i \in starts : PropMatchAt(t, i, var_name).match}
        first == CHOOSE i \in hits : \A j \in hits : i <= j
    IN  IF ~Exists(w, LOCAL_PROPS) \/ hits = {} THEN <<>>
        ELSE StripChar(StripChar(Strip(PropMatchAt(t, first, var_name).group), "\""), "'")

\* ensure_gitignore_has_local_properties
ensure_gitignore_has_local_properties(w) ==
    LET content == ReadText(w, GITIGNORE)
    IN  IF Exists(w, GITIGNORE)
        THEN IF ~Contains(JoinLines(content), S_local_properties)
             THEN WriteText(w, GITIGNORE, content \o <<S_local_properties, <<>>>>)
             ELSE w
        ELSE WriteText(w, GITIGNORE, <<S_local_properties, <<>>>>)

\* line.strip().startswith(f"{var_name}=")
IsLineOf(line, var_name) == StartsWith(Strip(line), var_name \o S_Eq)

\* store_in_local_properties
store_in_local_properties(w, var_name, value) ==
    LET lines == IF Exists(w, LOCAL_PROPS) THEN ReadText(w, LOCAL_PROPS) ELSE <<>>
        entry == var_name \o S_Eq \o value
        var_exists == \E i \in DOMAIN lines : IsLineOf(lines[i], var_name)
        at == CHOOSE i \in DOMAIN lines :
                  IsLineOf(lines[i], var_name)
                  /\ \A j \in 1..(i - 1) : ~IsLineOf(lines[j], var_name)
        new == IF var_exists THEN [lines EXCEPT ![at] = entry]
               ELSE IF Len(lines) > 0 /\ Strip(lines[Len(lines)]) = <<>>
               THEN [lines EXCEPT ![Len(lines)] = entry]
               ELSE Append(lines, entry)
    IN  ensure_gitignore_has_local_properties(WriteText(w, LOCAL_PROPS, new))

(***************************************************************************)
(* Build-time constants: is_buildconfig_variable_exposed and               *)
(* expose_in_buildconfig                                                   *)
(***************************************************************************)
\* The four patterns of lines 281-287 all begin with the first one and only
\* ask for more text after the name, so one of them matches exactly when the
\* first does: a line holding buildConfigField, then a quoted String, then
\* the name, compared without regard to case.
is_buildconfig_variable_exposed(w, var_name) ==
    LET target == IF Exists(w, GRADLE_KTS) THEN GRADLE_KTS ELSE GRADLE_GROOVY
        content == ReadText(w, target)
    IN  /\ Exists(w, target)
        /\ \E i \in DOMAIN content :
              /\ content[i].k \in BcfKinds
              /\ Contains(LowerStr(BcfRest(content[i])), LowerStr(var_name))

\* the match of (defaultConfig\s*{[^}]*}): <<i, j>>, from the first
\* defaultConfig opener to the first line after it that holds a "}";
\* <<0, 0>> when there is none
DefaultConfigMatch(content) ==
    LET ok(i, j) == /\ i < j
                    /\ content[i] = DEFCFG_OPEN
                    /\ HasCloseBrace(content[j])
                    /\ \A m \in (i + 1)..(j - 1) : ~HasCloseBrace(content[m])
        pairs == {p \in (DOMAIN content) \X (DOMAIN content) : ok(p[1], p[2])}
    IN  IF pairs = {} THEN <<0, 0>>
        ELSE CHOOSE p \in pairs : \A q \in pairs : p[1] <= q[1]

\* the part of a line before its "}"; nothing for a line that is the "}"
BeforeBrace(ln) ==
    CASE ln.k \in {"bcf_kts", "bcf_groovy"} -> <<LN("bcf_cut", ln.n)>>
      [] ln.k = MAVEN_REPO_SNIPPET.k        -> <<L("maven { url ...")>>
      [] OTHER                              -> <<>>

\* the line a "}" ends up on once text is put before it
BraceAndAfter(ln) == IF ln.k = CLOSE.k THEN CLOSE ELSE CLOSE_TAIL

\* content.replace(old, new) where old is the lines i..j of content (up to the
\* "}" of line j): every occurrence, left to right
RECURSIVE ReplaceBlock(_, _, _)
ReplaceBlock(content, old, new_line) ==
    LET n == Len(old)
        patched == SubSeq(old, 1, n - 1) \o BeforeBrace(old[n])
                   \o <<new_line, BraceAndAfter(old[n])>>
    IN  IF Len(content) < n THEN content
        ELSE IF SubSeq(content, 1, n) = old
        THEN patched \o ReplaceBlock(Tail0(content, n), old, new_line)
        ELSE <<content[1]>> \o ReplaceBlock(Tail(content), old, new_line)

\* expose_in_buildconfig, as [w, ret]
expose_in_buildconfig(w, var_name) ==
    LET target == IF Exists(w, GRADLE_KTS) THEN GRADLE_KTS ELSE GRADLE_GROOVY
        content == ReadText(w, target)
        build_config_line == IF Suffix(target) = ".kts" THEN LN("bcf_kts", var_name)
                             ELSE LN("bcf_groovy", var_name)
        match == FirstLine(content, ANDROID_OPEN)
        dc == DefaultConfigMatch(content)
        new_content ==
            IF dc[1] # 0
            THEN ReplaceBlock(content, SubSeq(content, dc[1], dc[2]), build_config_line)
            ELSE InsertAfter(content, match, <<DEFCFG_OPEN, build_config_line, CLOSE>>)
    IN  IF ~Exists(w, target) THEN Ret(w, FALSE)
        ELSE IF is_buildconfig_variable_exposed(w, var_name) THEN Ret(w, TRUE)
        ELSE IF match # 0 THEN Ret(WriteText(w, target, new_content), TRUE)
        ELSE Ret(w, FALSE)

(***************************************************************************)
(* Key resolution: handle_app_key and what it calls                        *)
(***************************************************************************)
API_KEY_MIN_LEN == 20

is_likely_api_key(value) ==
    /\ Len(value) > API_KEY_MIN_LEN
    /\ \E i \in DOMAIN value : IsAlnumChar(value[i])
    /\ ~IsAlpha(value)
    /\ ~IsDigit(value)

handle_no_key_provided ==
    MsgN("warning", "UXCam app key required. Please specify your key", <<>>)

BuildConfigRef(var_name) == MsgN("expr", "BuildConfig.", var_name)

\* handle_buildconfig_reference with a slip: the constant is declared before
\* the secret is looked up
handle_buildconfig_reference_ExposesFirst(w, var_name) ==
    LET exposed == expose_in_buildconfig(w, var_name).w
    IN  IF is_buildconfig_variable_exposed(w, var_name)
        THEN Ret(w, BuildConfigRef(var_name))
        ELSE IF find_in_local_properties(w, var_name) # <<>>
        THEN Ret(exposed, BuildConfigRef(var_name))
        ELSE Ret(exposed, MsgN("warning", "BuildConfig. not found. Please either", var_name))

handle_buildconfig_reference(w, var_name) ==
    IF is_buildconfig_variable_exposed(w, var_name)
    THEN Ret(w, BuildConfigRef(var_name))
    ELSE IF find_in_local_properties(w, var_name) # <<>>
    THEN Ret(expose_in_buildconfig(w, var_name).w, BuildConfigRef(var_name))
    ELSE Ret(w, MsgN("warning", "BuildConfig. not found. Please either", var_name))

handle_direct_api_key(w, api_key) ==
    LET stored == store_in_local_properties(w, S_UXCAM_KEY, api_key)
    IN  Ret(expose_in_buildconfig(stored, S_UXCAM_KEY).w, BuildConfigRef(S_UXCAM_KEY))

\* handle_variable_reference with a slip: the name is taken on trust
handle_variable_reference_Silent(w, var_name) ==
    IF is_buildconfig_variable_exposed(w, var_name)
    THEN Ret(w, BuildConfigRef(var_name))
    ELSE Ret(expose_in_buildconfig(w, var_name).w, BuildConfigRef(var_name))

handle_variable_reference(w, var_name) ==
    IF is_buildconfig_variable_exposed(w, var_name)
    THEN Ret(w, BuildConfigRef(var_name))
    ELSE IF find_in_local_properties(w, var_name) # <<>>
    THEN Ret(expose_in_buildconfig(w, var_name).w, BuildConfigRef(var_name))
    ELSE Ret(w, MsgN("warning", "Variable not found. Please either", var_name))

\* app_key_ref.strip().strip('"').strip("'")
CleanKey(ref) == StripChar(StripChar(Strip(ref), "\""), "'")

handle_app_key(w, ref) ==
    LET cleaned_key == CleanKey(ref)
    IN  IF Len(ref) = 0 \/ Strip(ref) = <<>> THEN Ret(w, handle_no_key_provided)
        ELSE IF StartsWith(cleaned_key, S_BuildConfigDot)
        THEN handle_buildconfig_reference(w, RemoveAll(cleaned_key, S_BuildConfigDot))
        ELSE IF is_likely_api_key(cleaned_key)
        THEN handle_direct_api_key(w, cleaned_key)
        ELSE handle_variable_reference(w, cleaned_key)


(***************************************************************************)
(* Source files under app/src and the manifest                             *)
(***************************************************************************)
S_MyApp            == <<"M","y","A","p","p">>
S_MainActivity     == <<"M","a","i","n","A","c","t","i","v","i","t","y">>
S_SettingsActivity == <<"S","e","t","t","i","n","g","s","A","c","t","i","v","i","t","y">>
S_Dot              == <<".">>
S_com_example_Dot  == <<"c","o","m",".","e","x","a","m","p","l","e",".">>

SRC_APP_KT        == "app/src/main/java/com/example/MyApp.kt"
SRC_APP_JAVA      == "app/src/main/java/com/example/MyApp.java"
SRC_MAIN_KT       == "app/src/main/java/com/example/MainActivity.kt"
SRC_MAIN_JAVA     == "app/src/main/java/com/example/MainActivity.java"
SRC_SETTINGS_KT   == "app/src/main/java/com/example/SettingsActivity.kt"

\* The tree under app/src in the order Path.rglob walks it: each file's path,
\* the stem of its name and its suffix
SourceTree ==
    << [path |-> SRC_MAIN_KT,     stem |-> S_MainActivity,     suffix |-> ".kt"],
       [path |-> SRC_MAIN_JAVA,   stem |-> S_MainActivity,     suffix |-> ".java"],
       [path |-> SRC_APP_KT,      stem |-> S_MyApp,            suffix |-> ".kt"],
       [path |-> SRC_APP_JAVA,    stem |-> S_MyApp,            suffix |-> ".java"],
       [path |-> SRC_SETTINGS_KT, stem |-> S_SettingsActivity, suffix |-> ".kt"] >>

SourcePaths == {SourceTree[i].path : i \in DOMAIN SourceTree}

SourceSuffix(p) == SourceTree[CHOOSE i \in DOMAIN SourceTree : SourceTree[i].path = p].suffix

Paths == {GRADLE_GROOVY, GRADLE_KTS, SETTINGS_GROOVY, SETTINGS_KTS, MANIFEST_PATH,
          LOCAL_PROPS, GITIGNORE} \cup SourcePaths

\* the subsequence of s whose elements satisfy Test
RECURSIVE SelectIdx(_, _)
SelectIdx(s, keep) ==
    IF Len(s) = 0 THEN <<>>
    ELSE (IF s[1] \in keep THEN <<s[1]>> ELSE <<>>) \o SelectIdx(Tail(s), keep)

\* list(Path("app/src").rglob("*" + name + "*" + suffix)): the files that
\* exist, whose name holds `name` and ends with suffix, in walk order
RGlob(w, name, suffix) ==
    SelectIdx([i \in DOMAIN SourceTree |-> SourceTree[i]],
              {SourceTree[i] : i \in {j \in DOMAIN SourceTree :
                   /\ Exists(w, SourceTree[j].path)
                   /\ SourceTree[j].suffix = suffix
                   /\ Contains(SourceTree[j].stem, name)}})

\* Lines of a source file
PACKAGE_LINE     == L("package com.example")
IMPORT_LINE      == L("import android.os.Bundle")
KT_IMPORT_UXCAM  == L("import com.uxcam.UXCam")
KT_IMPORT_CONFIG == L("import com.uxcam.datamodel.UXConfig")
JV_IMPORT_UXCAM  == L("import com.uxcam.UXCam;")
JV_IMPORT_CONFIG == L("import com.uxcam.datamodel.UXConfig;")
KT_ONCREATE      == L("override fun onCreate() {")
KT_ONCREATE_ARG  == L("override fun onCreate(savedInstanceState: Bundle?) {")
JV_ONCREATE_PUB  == L("@Override public void onCreate() {")
JV_ONCREATE_PROT == L("@Override protected void onCreate(Bundle savedInstanceState) {")
SUPER_CALL       == L("super.onCreate()")
SUPER_CALL_ARG   == L("super.onCreate(savedInstanceState)")
HAND_INIT        == L("UXCam.startWithConfiguration(cfg)")

\* class declarations: n is the class name
KtAppClass(n)      == LN("class : Application() {", n)
JvAppClass(n)      == LN("class extends Application {", n)
KtActivityClass(n) == LN("class : AppCompatActivity() {", n)
JvActivityClass(n) == LN("class extends AppCompatActivity {", n)

\* KOTLIN_SNIPPET % app_key_expr, JAVA_SNIPPET % app_key_expr: one line
\* stands for the block, n is the name after BuildConfig.
KOTLIN_SNIPPET(expr) == LN("KOTLIN_SNIPPET", expr.name)
JAVA_SNIPPET(expr)   == LN("JAVA_SNIPPET", expr.name)

\* KOTLIN_IMPORTS.split('\n'), JAVA_IMPORTS.split('\n')
KOTLIN_IMPORTS == <<KT_IMPORT_UXCAM, KT_IMPORT_CONFIG>>
JAVA_IMPORTS   == <<JV_IMPORT_UXCAM, JV_IMPORT_CONFIG>>

HasKind(content, kinds) == \E i \in DOMAIN content : content[i].k \in kinds

\* the index of the first line of content from index `from` on whose kind is
\* in kinds, 0 when there is none
FirstKind(content, from, kinds) ==
    LET hits == {i \in from..Len(content) : content[i].k \in kinds}
    IN  IF hits = {} THEN 0 ELSE CHOOSE i \in hits : \A j \in hits : i <= j

\* "extends Application" in content or ": Application()" in content or ...
HasApplicationMarker(content) ==
    HasKind(content, {KtAppClass(<<>>).k, JvAppClass(<<>>).k})

\* "extends Activity" in content or "extends AppCompatActivity" in content or
\* ": Activity" in content or ": AppCompatActivity" in content
HasActivityMarker(content) ==
    HasKind(content, {KtActivityClass(<<>>).k, JvActivityClass(<<>>).k})

\* "UXCam.startWithConfiguration" in content
HasInitCall(content) ==
    HasKind(content, {"KOTLIN_SNIPPET", "JAVA_SNIPPET", HAND_INIT.k})

\* "import com.uxcam.UXCam" in content
HasUxcamImport(content) == HasKind(content, {KT_IMPORT_UXCAM.k, JV_IMPORT_UXCAM.k})

\* find_application_class: the path found, "" for None
find_application_class(w) ==
    LET all_files == RGlob(w, <<>>, ".kt") \o RGlob(w, <<>>, ".java")
        hits == {i \in DOMAIN all_files :
                    HasApplicationMarker(ReadText(w, all_files[i].path))}
    IN  IF hits = {} THEN ""
        ELSE all_files[CHOOSE i \in hits : \A j \in hits : i <= j].path

\* Lines of the manifest: an activity element, n its android:name, and what
\* its intent filter declares, in order
ACTIVITY_PLAIN    == "<activity>"
ACTIVITY_LAUNCHER == "<activity> MAIN LAUNCHER"
ACTIVITY_REVERSED == "<activity> LAUNCHER MAIN"

\* s.split('.')[-1]
RECURSIVE LastDotPart(_)
LastDotPart(s) ==
    IF \E i \in DOMAIN s : s[i] = "."
    THEN LastDotPart(Tail0(s, CHOOSE i \in DOMAIN s :
                              s[i] = "." /\ \A j \in 1..(i - 1) : s[j] # "."))
    ELSE s

\* The match of launcher_pattern (line 371) under re.DOTALL: it starts at the
\* first <activity tag after which a MAIN action and, later, a LAUNCHER
\* category occur, whichever elements hold them; group 1 is that first tag's
\* android:name.  0 when there is no match.
LauncherMatch(manifest) ==
    LET hasMain(i) == manifest[i].k \in {ACTIVITY_LAUNCHER, ACTIVITY_REVERSED}
        hasCat(i)  == manifest[i].k \in {ACTIVITY_LAUNCHER, ACTIVITY_REVERSED}
        ok(i) == \E a \in i..Len(manifest) : \E b \in a..Len(manifest) :
                    /\ hasMain(a) /\ hasCat(b)
                    /\ (a = b => manifest[a].k = ACTIVITY_LAUNCHER)
    IN  IF \E i \in DOMAIN manifest : ok(i)
        THEN CHOOSE i \in DOMAIN manifest : ok(i) /\ \A j \in 1..(i - 1) : ~ok(j)
        ELSE 0

\* some line of content holds the text `name`
MentionsName(content, name) ==
    \E i \in DOMAIN content : Len(content[i].n) > 0 /\ Contains(content[i].n, name)

\* find_launcher_activity: the path found, "" for None
find_launcher_activity(w) ==
    LET manifest_content == ReadText(w, MANIFEST_PATH)
        match == LauncherMatch(manifest_content)
        declared == manifest_content[match].n
        activity_name == IF StartsWith(declared, S_Dot) THEN Tail(declared) ELSE declared
        all_files == RGlob(w, activity_name, ".kt") \o RGlob(w, activity_name, ".java")
        hits == {i \in DOMAIN all_files :
                    LET content == ReadText(w, all_files[i].path)
                    IN  /\ MentionsName(content, LastDotPart(activity_name))
                        /\ HasActivityMarker(content)}
    IN  IF ~Exists(w, MANIFEST_PATH) \/ match = 0 \/ hits = {} THEN ""
        ELSE all_files[CHOOSE i \in hits : \A j \in hits : i <= j].path

(***************************************************************************)
(* Insertion of the imports and of the initialization                      *)
(***************************************************************************)
\* line.strip().startswith('package '), line.strip().startswith('import ')
IsPackageLine(ln) == ln.k = PACKAGE_LINE.k
IsImportLine(ln) ==
    ln.k \in {IMPORT_LINE.k, KT_IMPORT_UXCAM.k, KT_IMPORT_CONFIG.k,
              JV_IMPORT_UXCAM.k, JV_IMPORT_CONFIG.k}

\* add_imports_to_file: the content to write
add_imports_to_file(w, file_path, is_kotlin) ==
    LET content == ReadText(w, file_path)
        imports == IF is_kotlin THEN KOTLIN_IMPORTS ELSE JAVA_IMPORTS
        stops == {i \in DOMAIN content :
                     IsPackageLine(content[i]) \/ IsImportLine(content[i])}
        stop == CHOOSE i \in stops : \A j \in stops : i <= j
        \* the number of lines that stay before the imports
        insert_index == IF stops = {} THEN 0
                        ELSE IF IsPackageLine(content[stop]) THEN stop
                        ELSE stop - 1
    IN  IF HasUxcamImport(content) THEN content
        ELSE InsertAfter(content, insert_index, imports)

\* the onCreate openers and super calls each pattern matches
ApplicationOnCreate(is_kotlin) ==
    IF is_kotlin THEN {KT_ONCREATE.k} ELSE {JV_ONCREATE_PUB.k}
ApplicationSuper == {SUPER_CALL.k}
ActivityOnCreate(is_kotlin) ==
    IF is_kotlin THEN {KT_ONCREATE.k, KT_ONCREATE_ARG.k} ELSE {JV_ONCREATE_PROT.k}
ActivitySuper == {SUPER_CALL.k, SUPER_CALL_ARG.k}

\* The common body of inject_init_in_application and inject_init_in_activity
InjectInto(w, file, key_expr, onCreate, super, name) ==
    LET is_kotlin == SourceSuffix(file) = ".kt"
        content == add_imports_to_file(w, file, is_kotlin)
        snippet == IF is_kotlin THEN KOTLIN_SNIPPET(key_expr)
                   ELSE JAVA_SNIPPET(key_expr)
        match == FirstKind(content, 1, onCreate)
        super_match == FirstKind(content, match + 1, super)
        insert_pos == IF super_match # 0 THEN super_match ELSE match
    IN  IF HasInitCall(ReadText(w, file))
        THEN Ret(w, Msg("info", "UXCam already initialized in", name))
        ELSE IF match # 0
        THEN Ret(WriteText(w, file, InsertAfter(content, insert_pos, <<snippet>>)),
                 Msg("success", "Added UXCam initialization to", name))
        ELSE Ret(w, Msg("warning", "Could not find onCreate() method in", name))

inject_init_in_application(w, app_file, key_expr) ==
    InjectInto(w, app_file, key_expr,
               ApplicationOnCreate(SourceSuffix(app_file) = ".kt"), ApplicationSuper,
               app_file)

inject_init_in_activity(w, activity_file, key_expr) ==
    InjectInto(w, activity_file, key_expr,
               ActivityOnCreate(SourceSuffix(activity_file) = ".kt"), ActivitySuper,
               activity_file)

\* inject_init, as [w, ret, expr]: expr is what key resolution gave
inject_init(w, app_key_input) ==
    LET Target(key, app_file, launcher_activity) ==
            IF app_file # ""
            THEN inject_init_in_application(key.w, app_file, key.ret)
            ELSE IF launcher_activity # ""
            THEN inject_init_in_activity(key.w, launcher_activity, key.ret)
            ELSE Ret(key.w, Msg("warning",
                     "Could not find Application class or LAUNCHER activity to add UXCam initialization",
                     ""))
        Inject(key) ==
            IF key.ret.mark = "warning" THEN key
            ELSE Target(key, find_application_class(key.w), find_launcher_activity(key.w))
        Result(key, done) == [w |-> done.w, ret |-> done.ret, expr |-> key.ret]
        Resolved(key) == Result(key, Inject(key))
    IN  Resolved(IF Len(app_key_input) = 0 \/ Strip(app_key_input) = <<>>
                 THEN Ret(w, handle_no_key_provided)
                 ELSE handle_app_key(w, app_key_input))


(***************************************************************************)
(* handle_call_tool: the three steps in the order of the list of lines     *)
(* 563-567, then the join of line 568.  The handler runs to its end        *)
(* without interleaving; pc is its position.                               *)
(***************************************************************************)
SEP == Msg("sep", "; ", "")

\* reports.append(step()): the step's file effects and its report
Step(r) ==
    /\ files' = r.w.files
    /\ writes' = r.w.writes
    /\ reports' = Append(reports, r.ret)

\* "; ".join(parts)
RECURSIVE JoinReports(_)
JoinReports(parts) ==
    IF Len(parts) = 0 THEN <<>>
    ELSE IF Len(parts) = 1 THEN <<parts[1]>>
    ELSE <<parts[1], SEP>> \o JoinReports(Tail(parts))

\* [r for r in reports if r]
RECURSIVE NonEmpty(_)
NonEmpty(rs) ==
    IF Len(rs) = 0 THEN <<>>
    ELSE (IF rs[1] # EmptyMsg THEN <<rs[1]>> ELSE <<>>) \o NonEmpty(Tail(rs))

World == [files |-> files, writes |-> writes]

(***************************************************************************)
(* The inputs: key references, and the project trees the tool is run on    *)
(***************************************************************************)
S_API_KEY_1 == <<"a","1","b","2","c","3","d","4","-","e","5","f","6","-","7","8","9","0",
                 "-","a","b","c","d","-","e","f","1","2","3","4","5","6">>
S_API_KEY_2 == <<"z","9","b","2","c","3","d","4","-","e","5","f","6","-","7","8","9","0",
                 "-","a","b","c","d","-","e","f","1","2","3","4","5","6">>
S_old       == <<"o","l","d">>
S_sdk_line  == <<"s","d","k",".","d","i","r","=","/","s">>
S_build     == <<"b","u","i","l","d">>

KeyRefs ==
    { <<>>,
      <<" ", " ">>,
      S_BuildConfigDot \o S_UXCAM_KEY,
      S_UXCAM_KEY,
      <<"\"">> \o S_MYKEY \o <<"\"">>,
      S_KEY,
      S_API_KEY_1,
      <<" ">> \o S_API_KEY_2 }

\* settings.gradle.kts and settings.gradle
SettingsWithDrm ==
    <<PLUGINS_OPEN, REPOS_OPEN, OTHER_LINE, CLOSE, CLOSE,
      DRM_OPEN, OTHER_LINE, REPOS_OPEN, OTHER_LINE, CLOSE, CLOSE, OTHER_LINE>>
SettingsOldStyle == <<OTHER_LINE>>

SettingsChoices ==
    { <<Absent, Absent>>,
      <<File(SettingsWithDrm), Absent>>,
      <<Absent, File(SettingsWithDrm)>>,
      <<Absent, File(SettingsOldStyle)>>,
      <<File(SettingsOldStyle), File(SettingsWithDrm)>> }

\* app/build.gradle.kts and app/build.gradle
GradleFull ==
    <<OTHER_LINE, ANDROID_OPEN, DEFCFG_OPEN, OTHER_LINE, CLOSE, CLOSE,
      DEPS_OPEN, OTHER_LINE, CLOSE>>
GradleWithRepos ==
    <<REPOS_OPEN, OTHER_LINE, CLOSE,
      ANDROID_OPEN, OTHER_LINE, CLOSE, DEPS_OPEN, OTHER_LINE, CLOSE>>
GradleNoBlocks == <<OTHER_LINE>>
GradleExposed ==
    <<ANDROID_OPEN, DEFCFG_OPEN, LN("bcf_literal", S_UXCAM_KEY), CLOSE, CLOSE,
      DEPS_OPEN, CLOSE>>

\* the defaultConfig block written twice, which Gradle accepts
GradleTwoBlocks ==
    <<ANDROID_OPEN, DEFCFG_OPEN, CLOSE, OTHER_LINE, DEFCFG_OPEN, CLOSE, CLOSE,
      DEPS_OPEN, OTHER_LINE, CLOSE>>

GradleChoices ==
    { <<Absent, Absent>>,
      <<File(GradleFull), Absent>>,
      <<Absent, File(GradleFull)>>,
      <<Absent, File(GradleWithRepos)>>,
      <<Absent, File(GradleNoBlocks)>>,
      <<File(GradleWithRepos), File(GradleFull)>>,
      <<Absent, File(GradleExposed)>>,
      <<Absent, File(GradleTwoBlocks)>> }

\* local.properties
LocalChoices ==
    { Absent,
      File(<<S_sdk_line, <<>>>>),
      File(<<S_sdk_line, S_UXCAM_KEY \o S_Eq \o S_old>>),
      File(<<S_UXCAM_KEY \o <<" ", "=", " ">> \o S_old>>),
      File(<<S_MYKEY \o S_Eq \o S_old, <<>>>>) }

\* .gitignore
GitignoreChoices ==
    { Absent, File(<<S_local_properties, <<>>>>), File(<<S_build>>) }

\* the manifest and the sources
KtApp == <<PACKAGE_LINE, IMPORT_LINE, KtAppClass(S_MyApp), KT_ONCREATE, SUPER_CALL,
           CLOSE, CLOSE>>
JvAppNoOnCreate == <<PACKAGE_LINE, JvAppClass(S_MyApp), CLOSE>>
JvAppNoSuper == <<IMPORT_LINE, JvAppClass(S_MyApp), JV_ONCREATE_PUB, CLOSE, CLOSE>>
KtMain == <<PACKAGE_LINE, IMPORT_LINE, KtActivityClass(S_MainActivity), KT_ONCREATE_ARG,
            SUPER_CALL_ARG, OTHER_LINE, CLOSE, CLOSE>>
KtMainNoOnCreate == <<PACKAGE_LINE, KtActivityClass(S_MainActivity), CLOSE>>
JvMain == <<JvActivityClass(S_MainActivity), JV_ONCREATE_PROT, SUPER_CALL_ARG,
            CLOSE, CLOSE>>
\* a launcher activity that already imports UXCam for the older startWithKey
KtMainOldApi == <<PACKAGE_LINE, IMPORT_LINE, KT_IMPORT_UXCAM,
                  KtActivityClass(S_MainActivity), KT_ONCREATE_ARG, SUPER_CALL_ARG,
                  OTHER_LINE, CLOSE, CLOSE>>
KtSettings == <<PACKAGE_LINE, KtActivityClass(S_SettingsActivity), KT_ONCREATE_ARG,
                SUPER_CALL_ARG, CLOSE, CLOSE>>

NoFiles == [p \in Paths |-> Absent]

Tree(pairs) == [p \in Paths |-> IF p \in DOMAIN pairs THEN pairs[p] ELSE Absent]

ManifestOf(acts) == File(acts)

SourceChoices ==
    { NoFiles,
      \* an Application class and the launcher activity, in Kotlin
      [NoFiles EXCEPT ![SRC_APP_KT] = File(KtApp), ![SRC_MAIN_KT] = File(KtMain),
          ![MANIFEST_PATH] = File(<<LN(ACTIVITY_LAUNCHER, S_Dot \o S_MainActivity)>>)],
      \* a Java Application class without onCreate
      [NoFiles EXCEPT ![SRC_APP_JAVA] = File(JvAppNoOnCreate),
          ![SRC_MAIN_JAVA] = File(JvMain),
          ![MANIFEST_PATH] = File(<<LN(ACTIVITY_LAUNCHER, S_Dot \o S_MainActivity)>>)],
      \* a Java Application class whose onCreate does not call super
      [NoFiles EXCEPT ![SRC_APP_JAVA] = File(JvAppNoSuper)],
      \* no Application class: the launcher activity alone
      [NoFiles EXCEPT ![SRC_MAIN_KT] = File(KtMain),
          ![MANIFEST_PATH] = File(<<LN(ACTIVITY_LAUNCHER, S_Dot \o S_MainActivity)>>)],
      [NoFiles EXCEPT ![SRC_MAIN_JAVA] = File(JvMain),
          ![MANIFEST_PATH] = File(<<LN(ACTIVITY_LAUNCHER, S_MainActivity)>>)],
      \* the launcher activity has no onCreate
      [NoFiles EXCEPT ![SRC_MAIN_KT] = File(KtMainNoOnCreate),
          ![MANIFEST_PATH] = File(<<LN(ACTIVITY_LAUNCHER, S_Dot \o S_MainActivity)>>)],
      \* another activity is declared before the launcher activity
      [NoFiles EXCEPT ![SRC_MAIN_KT] = File(KtMain), ![SRC_SETTINGS_KT] = File(KtSettings),
          ![MANIFEST_PATH] = File(<<LN(ACTIVITY_PLAIN, S_Dot \o S_SettingsActivity),
                                    LN(ACTIVITY_LAUNCHER, S_Dot \o S_MainActivity)>>)],
      \* the launcher activity is declared by its qualified name
      [NoFiles EXCEPT ![SRC_MAIN_KT] = File(KtMain),
          ![MANIFEST_PATH] = File(<<LN(ACTIVITY_LAUNCHER,
                                       S_com_example_Dot \o S_MainActivity)>>)],
      \* the category is declared before the action
      [NoFiles EXCEPT ![SRC_MAIN_KT] = File(KtMain),
          ![MANIFEST_PATH] = File(<<LN(ACTIVITY_REVERSED, S_Dot \o S_MainActivity)>>)],
      \* the launcher activity already imports UXCam
      [NoFiles EXCEPT ![SRC_MAIN_KT] = File(KtMainOldApi),
          ![MANIFEST_PATH] = File(<<LN(ACTIVITY_LAUNCHER, S_Dot \o S_MainActivity)>>)],
      \* sources but no manifest
      [NoFiles EXCEPT ![SRC_MAIN_KT] = File(KtMain)] }

Project(src, settings, gradle, local, gitignore) ==
    [src EXCEPT ![SETTINGS_KTS] = settings[1], ![SETTINGS_GROOVY] = settings[2],
                ![GRADLE_KTS] = gradle[1], ![GRADLE_GROOVY] = gradle[2],
                ![LOCAL_PROPS] = local, ![GITIGNORE] = gitignore]

\* The project trees the tool is run on: every settings file against every
\* build file; every build file against every local.properties and
\* .gitignore; every source tree against the build files and local.properties
\* that decide whether the key resolves
KtProject ==
    [NoFiles EXCEPT ![SRC_APP_KT] = File(KtApp), ![SRC_MAIN_KT] = File(KtMain),
        ![MANIFEST_PATH] = File(<<LN(ACTIVITY_LAUNCHER, S_Dot \o S_MainActivity)>>)]

Projects ==
    {Project(NoFiles, settings, gradle, Absent, Absent) :
        settings \in SettingsChoices, gradle \in GradleChoices}
    \cup
    {Project(KtProject, <<File(SettingsWithDrm), Absent>>, g[1], g[2], gitignore) :
        g \in GradleChoices \X LocalChoices, gitignore \in GitignoreChoices}
    \cup
    {Project(src, <<Absent, Absent>>, g[1], g[2], Absent) :
        src \in SourceChoices,
        g \in {<<File(GradleFull), Absent>>, <<Absent, File(GradleWithRepos)>>,
               <<Absent, Absent>>}
              \X {Absent, File(<<S_MYKEY \o S_Eq \o S_old, <<>>>>)}}

Init ==
    /\ files \in Projects
    /\ pc = "idle"
    /\ app_key_ref = <<>>
    /\ reports = <<>>
    /\ app_key_expr = EmptyMsg
    /\ writes = <<>>
    /\ result = <<>>
    /\ last = [ref |-> <<>>, reports |-> <<>>]
    /\ calls = 0

\* arguments.get("appKeyRef", ""): a call of the tool arrives
Invoke(ref) ==
    /\ pc = "idle"
    /\ calls < MaxCalls
    /\ pc' = "add_repo"
    /\ app_key_ref' = ref
    /\ last' = [ref |-> app_key_ref, reports |-> reports]
    /\ reports' = <<>>
    /\ writes' = <<>>
    /\ calls' = calls + 1
    /\ UNCHANGED <<files, app_key_expr, result>>

\* AddRepo with a slip: a warning from the repository step ends the call
AddRepo_AbortsOnWarning ==
    /\ pc = "add_repo"
    /\ Step(add_repo(World))
    /\ pc' = IF reports'[1].mark = "warning" THEN "return" ELSE "add_dependency"
    /\ UNCHANGED <<app_key_ref, app_key_expr, result, last, calls>>

AddRepo ==
    /\ pc = "add_repo"
    /\ Step(add_repo(World))
    /\ pc' = "add_dependency"
    /\ UNCHANGED <<app_key_ref, app_key_expr, result, last, calls>>

AddDependency ==
    /\ pc = "add_dependency"
    /\ Step(add_dependency(World))
    /\ pc' = "inject_init"
    /\ UNCHANGED <<app_key_ref, app_key_expr, result, last, calls>>

InjectInit ==
    /\ pc = "inject_init"
    /\ LET Done(r) == Step(r) /\ app_key_expr' = r.expr
       IN  Done(inject_init(World, app_key_ref))
    /\ pc' = "return"
    /\ UNCHANGED <<app_key_ref, result, last, calls>>

Return ==
    /\ pc = "return"
    /\ result' = JoinReports(NonEmpty(reports))
    /\ pc' = "idle"
    /\ UNCHANGED <<files, app_key_ref, reports, app_key_expr, writes, last, calls>>

Next ==
    \/ \E ref \in KeyRefs : Invoke(ref)
    \/ AddRepo
    \/ AddDependency
    \/ InjectInit
    \/ Return

Spec == Init /\ [][Next]_vars


(***************************************************************************)
(* Vocabulary of the properties                                            *)
(***************************************************************************)
\* how handle_app_key classifies a key reference (lines 131-147)
IsBlankRef(ref) == Len(ref) = 0 \/ Strip(ref) = <<>>
IsPrefixedRef(ref) == ~IsBlankRef(ref) /\ StartsWith(CleanKey(ref), S_BuildConfigDot)
IsLiteralKeyRef(ref) ==
    ~IsBlankRef(ref) /\ ~IsPrefixedRef(ref) /\ is_likely_api_key(CleanKey(ref))
IsBareNameRef(ref) == ~IsBlankRef(ref) /\ ~IsPrefixedRef(ref) /\ ~IsLiteralKeyRef(ref)

\* the name a prefixed or bare reference stands for
NameOfRef(ref) ==
    IF IsPrefixedRef(ref) THEN RemoveAll(CleanKey(ref), S_BuildConfigDot)
    ELSE CleanKey(ref)

\* a line of a properties file that assigns `name`: the name, blanks if any,
\* then "="
Assigns(line, name) ==
    LET t == Strip(line)
        e == SkipSpace(t, Len(name) + 1)
    IN  StartsWith(t, name) /\ e <= Len(t) /\ t[e] = "="

\* the lines of file f that assign `name`
EntryLines(f, name) == {i \in DOMAIN f.lines : Assigns(f.lines[i], name)}

AppBuildFile(fs) == IF fs[GRADLE_KTS].exists THEN GRADLE_KTS ELSE GRADLE_GROOVY
SettingsFile(fs) == IF fs[SETTINGS_KTS].exists THEN SETTINGS_KTS ELSE SETTINGS_GROOVY

\* the positions of the handler after each step
AfterRepo == pc \in {"add_dependency", "inject_init", "return"}
AfterDependency == pc \in {"inject_init", "return"}
AfterInit == pc = "return"
Returned == pc = "idle" /\ calls > 0

\* the running invocation repeats the input of the one before it
SecondOfTwo == calls >= 2 /\ last.ref = app_key_ref /\ Len(last.reports) = 3

(***************************************************************************)
(* C1  Idempotence: when the operation is invoked twice in succession with *)
(* the same key reference, every step whose message was a success (mark    *)
(* "success") in the first invocation returns an informational message     *)
(* (mark "info") in the second, also for a build file that holds no        *)
(* "repositories {" or "dependencies {" opener.                            *)
(***************************************************************************)
C1_Idempotence ==
    (AfterInit /\ SecondOfTwo) =>
        \A i \in 1..3 : last.reports[i].mark = "success" => reports[i].mark = "info"

(***************************************************************************)
(* C2  Anchor-not-found reporting: a step whose target file exists, holds  *)
(* neither the step's presence marker nor its anchor ("repositories {" for *)
(* the repository step, "dependencies {" for the dependency step, the      *)
(* onCreate signature for the initialization step), returns a warning that *)
(* names the file, never a success.                                        *)
(***************************************************************************)
RepoAnchorMissing ==
    LET b == files[AppBuildFile(files)]
        st == files[SettingsFile(files)]
    IN  /\ b.exists
        /\ ~HasLine(b.lines, MAVEN_REPO_SNIPPET) /\ ~HasLine(b.lines, MAVEN_REPO_SNIPPET_KTS)
        /\ ~HasLine(b.lines, REPOS_OPEN)
        /\ ~HasLine(st.lines, MAVEN_REPO_SNIPPET) /\ ~HasLine(st.lines, MAVEN_REPO_SNIPPET_KTS)
        /\ ~HasLine(st.lines, REPOS_OPEN)

DependencyAnchorMissing ==
    LET b == files[AppBuildFile(files)]
    IN  /\ b.exists
        /\ ~HasLine(b.lines, DEP_LINE_KTS) /\ ~HasLine(b.lines, DEP_LINE_GROOVY)
        /\ ~HasLine(b.lines, DEPS_OPEN)

\* the source file the initialization step works on
InitTarget(fs) ==
    LET w == [files |-> fs, writes |-> <<>>]
    IN  IF find_application_class(w) # "" THEN find_application_class(w)
        ELSE find_launcher_activity(w)

InitAnchorMissing ==
    LET t == InitTarget(files)
    IN  /\ t # ""
        /\ ~HasInitCall(files[t].lines)
        /\ ~HasKind(files[t].lines, {KT_ONCREATE.k, KT_ONCREATE_ARG.k,
                                     JV_ONCREATE_PUB.k, JV_ONCREATE_PROT.k})

IsWarningNaming(m, file) == m.mark = "warning" /\ m.file = file

C2_AnchorNotFoundWarns ==
    [][ /\ (pc = "add_repo" /\ RepoAnchorMissing)
            => IsWarningNaming(reports'[1], AppBuildFile(files))
        /\ (pc = "add_dependency" /\ DependencyAnchorMissing)
            => IsWarningNaming(reports'[2], AppBuildFile(files))
        /\ (pc = "inject_init" /\ InitAnchorMissing /\ app_key_expr'.mark = "expr")
            => IsWarningNaming(reports'[3], InitTarget(files)) ]_vars

(***************************************************************************)
(* C3  Step sequencing: in every invocation the three steps run in the     *)
(* order add_repo, add_dependency, inject_init, whatever an earlier step   *)
(* returned; each contributes a message that is not empty, and the report  *)
(* returned is those three messages in that order joined by "; ".          *)
(***************************************************************************)
RepoTexts ==
    {"Maven repo already present in settings.gradle",
     "Added UXCam Maven repo in (dependencyResolutionManagement)",
     "Neither settings.gradle nor app/build.gradle found",
     "Maven repo already present in app/build.gradle",
     "Added UXCam Maven repo in (fallback)"}
DependencyTexts ==
    {"app/build.gradle file not found", "Dependency already present",
     "Added UXCam dependency in"}
InitTexts ==
    {"UXCam app key required. Please specify your key",
     "BuildConfig. not found. Please either", "Variable not found. Please either",
     "UXCam already initialized in", "Added UXCam initialization to",
     "Could not find onCreate() method in",
     "Could not find Application class or LAUNCHER activity to add UXCam initialization"}

C3_StepSequencing ==
    /\ pc = "add_repo" => reports = <<>>
    /\ pc = "add_dependency" => Len(reports) = 1
    /\ pc = "inject_init" => Len(reports) = 2
    /\ (AfterInit \/ Returned) => Len(reports) = 3
    /\ \A i \in DOMAIN reports :
          /\ reports[i] # EmptyMsg /\ reports[i].text # ""
          /\ reports[i].text \in (CASE i = 1 -> RepoTexts
                                    [] i = 2 -> DependencyTexts
                                    [] OTHER -> InitTexts)
    /\ Returned => result = <<reports[1], SEP, reports[2], SEP, reports[3]>>

\* a call returned although its first two steps warned, and the third worked
C3_Witness ==
    /\ Returned
    /\ reports[1].mark = "warning" /\ reports[2].mark = "warning"
    /\ reports[3].mark = "success"

(***************************************************************************)
(* C4  Bare-name key resolution, as claimed: for a key reference that is   *)
(* a bare variable name, when local.properties has no entry for the name,  *)
(* handle_app_key returns guidance (a warning) and never a reference       *)
(* BuildConfig.<name>, whatever the app build file holds.                  *)
(***************************************************************************)
C4_BareNameNeedsLocalEntry ==
    [][ (/\ pc = "inject_init"
         /\ IsBareNameRef(app_key_ref)
         /\ EntryLines(files[LOCAL_PROPS], CleanKey(app_key_ref)) = {})
        => app_key_expr'.mark = "warning" ]_vars

(***************************************************************************)
(* C4 as amended: for a bare variable name that local.properties has no    *)
(* entry for and that no buildConfigField String line of the app build     *)
(* file holds, handle_app_key returns guidance naming it and never the     *)
(* reference BuildConfig.<name>.                                           *)
(***************************************************************************)
C4_BareNameUnexposedNeedsLocalEntry ==
    [][ (/\ pc = "inject_init"
         /\ IsBareNameRef(app_key_ref)
         /\ EntryLines(files[LOCAL_PROPS], CleanKey(app_key_ref)) = {}
         /\ ~is_buildconfig_variable_exposed(World, CleanKey(app_key_ref)))
        => /\ app_key_expr'.mark = "warning"
           /\ app_key_expr'.name = CleanKey(app_key_ref)
           /\ reports'[3] = app_key_expr' ]_vars

\* a bare name without entry and without exposure was answered with guidance
C4_Witness ==
    /\ AfterInit
    /\ IsBareNameRef(app_key_ref)
    /\ EntryLines(files[LOCAL_PROPS], CleanKey(app_key_ref)) = {}
    /\ files[AppBuildFile(files)].exists
    /\ ~is_buildconfig_variable_exposed(World, CleanKey(app_key_ref))
    /\ app_key_expr.mark = "warning"

(***************************************************************************)
(* C5  Direct-key resolution: when the key reference is a literal secret   *)
(* value and handle_direct_api_key has returned BuildConfig.UXCAM_KEY,     *)
(* local.properties holds the line UXCAM_KEY=<value> and the app build     *)
(* file declares UXCAM_KEY as a build-time string constant, also when the  *)
(* app build file is missing or has no "android {" block.                  *)
(***************************************************************************)
\* the app build file holds a buildConfigField String line for `name`
DeclaresConstant(fs, name) ==
    LET b == fs[AppBuildFile(fs)]
    IN  b.exists /\ \E i \in DOMAIN b.lines :
                       b.lines[i].k \in BcfKinds /\ b.lines[i].n = name

C5_DirectKeyStoredAndExposed ==
    (AfterInit /\ IsLiteralKeyRef(app_key_ref)
               /\ app_key_expr = BuildConfigRef(S_UXCAM_KEY))
    => /\ files[LOCAL_PROPS].exists
       /\ \E i \in DOMAIN files[LOCAL_PROPS].lines :
             files[LOCAL_PROPS].lines[i] = S_UXCAM_KEY \o S_Eq \o CleanKey(app_key_ref)
       /\ DeclaresConstant(files, S_UXCAM_KEY)

(***************************************************************************)
(* C6  Secret persistence: from a local.properties that is absent or holds *)
(* at most one line for the name, after store_in_local_properties the file *)
(* holds exactly one line for the name, with the value of the last call,   *)
(* and the lines for other names are unchanged.                            *)
(***************************************************************************)
\* the lines of f that are neither blank nor an entry of `name`
RECURSIVE OtherLinesOf(_, _)
OtherLinesOf(lines, name) ==
    IF Len(lines) = 0 THEN <<>>
    ELSE (IF Strip(lines[1]) = <<>> \/ Assigns(lines[1], name) THEN <<>>
          ELSE <<lines[1]>>) \o OtherLinesOf(Tail(lines), name)

C6_SecretPersistence ==
    [][ (/\ pc = "inject_init"
         /\ IsLiteralKeyRef(app_key_ref)
         /\ Cardinality(EntryLines(files[LOCAL_PROPS], S_UXCAM_KEY)) <= 1)
        => /\ Cardinality(EntryLines(files'[LOCAL_PROPS], S_UXCAM_KEY)) = 1
           /\ \A i \in EntryLines(files'[LOCAL_PROPS], S_UXCAM_KEY) :
                 files'[LOCAL_PROPS].lines[i] = S_UXCAM_KEY \o S_Eq \o CleanKey(app_key_ref)
           /\ OtherLinesOf(files'[LOCAL_PROPS].lines, S_UXCAM_KEY)
                 = OtherLinesOf(files[LOCAL_PROPS].lines, S_UXCAM_KEY) ]_vars

(***************************************************************************)
(* C7  Entry-point fallback ordering: with a resolved key expression,      *)
(* inject_init inserts the initialization into the launcher activity's     *)
(* onCreate if and only if no source file matches the Application-class    *)
(* detector and the manifest declares a launcher activity whose source     *)
(* file can be located (a source file that has an onCreate and no          *)
(* initialization yet); when an Application-class file is found the        *)
(* launcher activity is not modified; when neither is found the step       *)
(* returns the missing-target warning and modifies no source file.         *)
(***************************************************************************)
NoApplicationClass(fs) ==
    \A p \in SourcePaths : fs[p].exists => ~HasApplicationMarker(fs[p].lines)

\* the names of the activities the manifest declares as MAIN and LAUNCHER
LauncherNames(fs) ==
    {LastDotPart(fs[MANIFEST_PATH].lines[i].n) :
        i \in {j \in DOMAIN fs[MANIFEST_PATH].lines :
                  fs[MANIFEST_PATH].lines[j].k \in {ACTIVITY_LAUNCHER, ACTIVITY_REVERSED}}}

\* the source files of those activities: named after the class, declaring it
\* as an activity
LauncherSources(fs) ==
    {p \in SourcePaths :
        /\ fs[p].exists
        /\ HasActivityMarker(fs[p].lines)
        /\ \E i \in DOMAIN SourceTree :
              SourceTree[i].path = p /\ SourceTree[i].stem \in LauncherNames(fs)}

\* the file has an onCreate to insert into and no initialization yet
Insertable(lines) ==
    /\ ~HasInitCall(lines)
    /\ HasKind(lines, {KT_ONCREATE.k, KT_ONCREATE_ARG.k, JV_ONCREATE_PROT.k})

InsertedInto(p) == HasInitCall(files'[p].lines) /\ ~HasInitCall(files[p].lines)

MissingTarget ==
    Msg("warning",
        "Could not find Application class or LAUNCHER activity to add UXCam initialization",
        "")

C7_FallbackOrdering ==
    [][ (/\ pc = "inject_init"
         /\ app_key_expr'.mark = "expr"
         /\ \A p \in LauncherSources(files) : Insertable(files[p].lines))
        => /\ (\E p \in LauncherSources(files) : InsertedInto(p))
               <=> (NoApplicationClass(files) /\ LauncherSources(files) # {})
           /\ ~NoApplicationClass(files)
               => \A p \in LauncherSources(files) : files'[p] = files[p]
           /\ (NoApplicationClass(files) /\ LauncherSources(files) = {})
               => /\ reports'[3] = MissingTarget
                  /\ \A p \in SourcePaths : files'[p] = files[p] ]_vars

(***************************************************************************)
(* C8  An unresolved key makes no writes: when key resolution yields       *)
(* guidance (an empty or blank key, or a prefixed or bare name that the    *)
(* build file does not expose and local.properties does not hold),         *)
(* inject_init returns that guidance and creates or modifies no file; on   *)
(* an empty project with the key "" the report is the two missing-file     *)
(* warnings and the guidance, and no file is created.                      *)
(***************************************************************************)
Unresolvable(ref) ==
    \/ IsBlankRef(ref)
    \/ /\ IsPrefixedRef(ref) \/ IsBareNameRef(ref)
       /\ ~is_buildconfig_variable_exposed(World, NameOfRef(ref))
       /\ EntryLines(files[LOCAL_PROPS], NameOfRef(ref)) = {}

C8_UnresolvedKeyWritesNothing ==
    [][ /\ (pc = "inject_init" /\ Unresolvable(app_key_ref))
            => app_key_expr'.mark = "warning"
        /\ (pc = "inject_init" /\ app_key_expr'.mark = "warning")
            => /\ reports'[3] = app_key_expr'
               /\ files' = files
               /\ writes' = writes
        /\ (pc = "return" /\ app_key_ref = <<>> /\ files = NoFiles)
            => /\ files' = NoFiles
               /\ result' = <<Msg("warning",
                                  "Neither settings.gradle nor app/build.gradle found", ""),
                              SEP,
                              Msg("warning", "app/build.gradle file not found", ""),
                              SEP,
                              handle_no_key_provided>> ]_vars

\* guidance was given for a name, in a project whose build file could have
\* been patched
C8_Witness ==
    /\ AfterInit
    /\ IsPrefixedRef(app_key_ref)
    /\ app_key_expr.mark = "warning"
    /\ HasLine(files[AppBuildFile(files)].lines, ANDROID_OPEN)
    /\ files[LOCAL_PROPS].exists
    /\ \E p \in SourcePaths : files[p].exists

(***************************************************************************)
(* C9  Dialect selection: for the settings file and for the app build file *)
(* the .kts path is the one worked on whenever it exists, otherwise the    *)
(* Groovy path; the repository snippet and the dependency line written     *)
(* into a file are in the syntax of that file's extension; and at most one *)
(* file of each role is written in an invocation.                          *)
(***************************************************************************)
SettingsRole == {SETTINGS_KTS, SETTINGS_GROOVY}
BuildRole == {GRADLE_KTS, GRADLE_GROOVY}
KtsForms == {MAVEN_REPO_SNIPPET_KTS, DEP_LINE_KTS}
GroovyForms == {MAVEN_REPO_SNIPPET, DEP_LINE_GROOVY}

\* the lines of file p that the step added
AddedLines(p) == Range(files'[p].lines) \ Range(files[p].lines)

C9_DialectSelection ==
    [][ /\ \A p \in SettingsRole \cup BuildRole :
              /\ AddedLines(p) \cap KtsForms # {} => Suffix(p) = ".kts"
              /\ AddedLines(p) \cap GroovyForms # {} => Suffix(p) # ".kts"
        /\ \A p \in Range(writes') :
              /\ p \in SettingsRole => p = SettingsFile(files)
              /\ p \in BuildRole => p = AppBuildFile(files)
        /\ Cardinality(Range(writes') \cap SettingsRole) <= 1
        /\ Cardinality(Range(writes') \cap BuildRole) <= 1 ]_vars

\* both build files exist and the invocation patched the Kotlin one
C9_Witness ==
    /\ AfterInit
    /\ files[GRADLE_KTS].exists /\ files[GRADLE_GROOVY].exists
    /\ HasLine(files[GRADLE_KTS].lines, DEP_LINE_KTS)
    /\ HasLine(files[GRADLE_KTS].lines, MAVEN_REPO_SNIPPET_KTS)
    /\ GRADLE_KTS \in Range(writes)

(***************************************************************************)
(* C10  Settings-file resolution failure, as claimed: when neither         *)
(* settings.gradle.kts nor settings.gradle exists the repository step      *)
(* reports a target-missing warning and patches no file, whether or not an *)
(* app build file exists.                                                  *)
(***************************************************************************)
NoSettingsFile == ~files[SETTINGS_KTS].exists /\ ~files[SETTINGS_GROOVY].exists

C10_NoSettingsWarns ==
    [][ (pc = "add_repo" /\ NoSettingsFile)
        => /\ reports'[1].mark = "warning"
           /\ files' = files ]_vars

(***************************************************************************)
(* C10 as amended: when neither settings file exists the repository step   *)
(* falls back to the app build file; it reports the target-missing warning *)
(* and patches no file exactly when no app build file exists either, and   *)
(* otherwise its message is about the app build file.                      *)
(***************************************************************************)
C10_NoSettingsFallsBack ==
    [][ (pc = "add_repo" /\ NoSettingsFile)
        => IF files[AppBuildFile(files)].exists
           THEN /\ reports'[1].mark # "warning"
                /\ reports'[1].text \in {"Maven repo already present in app/build.gradle",
                                         "Added UXCam Maven repo in (fallback)"}
                /\ \A p \in Paths \ {AppBuildFile(files)} : files'[p] = files[p]
           ELSE /\ reports'[1] = Msg("warning",
                                     "Neither settings.gradle nor app/build.gradle found", "")
                /\ files' = files
                /\ writes' = writes ]_vars

\* without a settings file the repository went into the app build file
C10_Witness ==
    /\ pc = "add_dependency"
    /\ NoSettingsFile
    /\ reports[1].mark = "success"
    /\ HasLine(files[GRADLE_GROOVY].lines, MAVEN_REPO_SNIPPET)

(***************************************************************************)
(* C11  Build-time constant declared once: from an app build file with no  *)
(* buildConfigField declaration for a name, after any sequence of          *)
(* invocations the build file holds at most one generated buildConfigField *)
(* line for that name; and a call made when the name is already detected   *)
(* as exposed leaves the build file unchanged.                             *)
(***************************************************************************)
\* the names a key reference can make the tool declare
ConstantNames == {S_UXCAM_KEY, S_MYKEY, S_KEY}

\* the kinds of line only expose_in_buildconfig writes (one of them possibly
\* cut by a later insertion)
GeneratedKinds == {"bcf_kts", "bcf_groovy", "bcf_cut"}

\* the generated declarations of `name` in file f
GeneratedLines(f, name) ==
    {i \in DOMAIN f.lines : f.lines[i].k \in GeneratedKinds /\ f.lines[i].n = name}

\* the name the key reference makes the tool declare
ExposedName(ref) == IF IsLiteralKeyRef(ref) THEN S_UXCAM_KEY ELSE NameOfRef(ref)

C11_DeclaredOnce ==
    [][ /\ \A p \in {GRADLE_KTS, GRADLE_GROOVY} : \A name \in ConstantNames :
              (~DeclaresConstant(files, name) \/ GeneratedLines(files[p], name) # {})
                  => Cardinality(GeneratedLines(files'[p], name)) <= 1
        /\ (/\ pc = "inject_init"
            /\ ~IsBlankRef(app_key_ref)
            /\ is_buildconfig_variable_exposed(World, ExposedName(app_key_ref)))
            => /\ files'[GRADLE_KTS] = files[GRADLE_KTS]
               /\ files'[GRADLE_GROOVY] = files[GRADLE_GROOVY] ]_vars

(***************************************************************************)
(* C12  Import and initialization are written together: a call of          *)
(* inject_init_in_application or inject_init_in_activity writes the source *)
(* file at most once, and only when the onCreate anchor was found; after   *)
(* the call the file is unchanged, or it holds both the UXCam import lines *)
(* and the initialization snippet.                                         *)
(***************************************************************************)
\* how many times path p was written
Occurrences(seq, p) == Cardinality({i \in DOMAIN seq : seq[i] = p})

\* the import lines of the file's dialect are all there
HasImportLines(p, content) ==
    LET imports == IF SourceSuffix(p) = ".kt" THEN KOTLIN_IMPORTS ELSE JAVA_IMPORTS
    IN  \A i \in DOMAIN imports : HasLine(content, imports[i])

HasOnCreate(content) ==
    HasKind(content, {KT_ONCREATE.k, KT_ONCREATE_ARG.k,
                      JV_ONCREATE_PUB.k, JV_ONCREATE_PROT.k})

C12_ImportsAndInitTogether ==
    [][ \A p \in SourcePaths :
          /\ Occurrences(writes', p) <= Occurrences(writes, p) + 1
          /\ Occurrences(writes', p) > Occurrences(writes, p)
                => HasOnCreate(files[p].lines)
          /\ \/ files'[p] = files[p]
             \/ /\ HasImportLines(p, files'[p].lines)
                /\ HasInitCall(files'[p].lines) ]_vars

=============================================================================
